---- MODULE Spec2Model ----
(***************************************************************************)
(* DecisionTreeBuilder (main.py): an ast.NodeVisitor that walks a parsed   *)
(* statement tree and emits graph nodes and edges.  The recursive walk is  *)
(* modelled with an explicit call stack, one frame per active visit(); the *)
(* statement tree is the input and is revealed statement by statement as   *)
(* the depth-first walk reaches it (variable tree records what was read).  *)
(***************************************************************************)
EXTENDS Integers, Sequences, FiniteSets, TLC

\* Largest number of statements in the input tree.
MaxStmts == 5

\* Python's None, for an optional node id.
None == -1

\* An edge drawn without a label argument.
NoLabel == "none"

\* Statement kinds as visit() dispatches them: ast.If, ast.Return, ast.Expr,
\* and every other node class (handled by NodeVisitor.generic_visit).
Kinds == {"If", "Return", "Expr", "Other"}

VARIABLES
    nodes,          \* graph.node(...) calls so far: <<[id, fillcolor]>>
    edges,          \* graph.edge(...) calls so far: <<[from, to, label, site]>>
    current_node,   \* self.current_node
    node_counter,   \* self.node_counter
    suppress_edge,  \* self.suppress_edge
    stack,          \* active visit() calls, innermost last
    tree            \* the statements of the input read so far, in visit order

vars == <<nodes, edges, current_node, node_counter, suppress_edge, stack, tree>>

----------------------------------------------------------------------------
\* Helpers

Top == stack[Len(stack)]

SetTop(f) == [stack EXCEPT ![Len(stack)] = f]

\* A fresh activation of visit(stmt); cur0 remembers the cursor at the call.
NewFrame(kind, stmt) ==
    [kind |-> kind, pc |-> "entry", stmt |-> stmt,
     condition_node |-> None, parent |-> None, prev |-> None,
     true_branch |-> None, false_branch |-> None, n |-> 0,
     cur0 |-> current_node]

\* The statement record read from the input when a loop reaches it: its kind,
\* the statement holding it (0 is the Module), the field and position it has
\* there; node is the graph node made for it, cur0 the cursor when it was visited.
NewStmt(kind, f, field) ==
    [kind |-> kind, up |-> f.stmt, field |-> field, pos |-> f.n + 1, node |-> None,
     cur0 |-> current_node]

\* Truthiness test of an optional node id: "if parent:", "if self.current_node".
\* (faulty variant: the test left out)
HasPredecessorAlways(p) == TRUE
HasPredecessor(p) == p # None

\* create_node: the id handed out, and the counter afterwards.
NodeId(counter) == counter

\* (faulty variant: the counter is not incremented)
NextCounterStuck(counter) == counter
NextCounter(counter) == counter + 1

\* One graph.edge(...) call; site names the statement of main.py that made it.
Edge(from, to, label, site) == [from |-> from, to |-> to, label |-> label, site |-> site]

\* Condition of the default predecessor edge of visit_Return / generic_visit.
\* (faulty variant: the default edge is never drawn)
DefaultEdgeNever(cur, sup) == FALSE
DefaultEdge(cur, sup) == HasPredecessor(cur) /\ ~sup

\* Value assigned to suppress_edge before the recursive visit of a branch statement.
\* (faulty variant: the flag is not raised)
SuppressOnOff == FALSE
SuppressOn == TRUE

\* Labels of the edges drawn by the branch loops.
TrueFirstLabel == "True"
\* (faulty variant: the chaining edge of the true branch drawn without label)
TrueChainLabelNone == NoLabel
TrueChainLabel == "True"
FalseFirstLabel == "False"
FalseChainLabel == "False"

\* The cursor value visit_If leaves behind.
\* (faulty variant: the cursor stays on the condition node)
RestoreCursorCond(f) == f.condition_node
RestoreCursor(f) == f.parent

\* A visit() returns: its frame goes, and the caller moves past its call.
AfterCall(pc) ==
    CASE pc = "body_called" -> "body_ret"
      [] pc = "orelse_called" -> "orelse_ret"
      [] OTHER -> "children"

Returned ==
    LET rest == SubSeq(stack, 1, Len(stack) - 1)
    IN IF rest = <<>> THEN rest
       ELSE [rest EXCEPT ![Len(rest)].pc = AfterCall(@)]

----------------------------------------------------------------------------
Init ==
    /\ nodes = <<>>
    /\ edges = <<>>
    /\ current_node = None
    /\ node_counter = 0
    /\ suppress_edge = FALSE
    /\ tree = <<>>
    \* builder.visit(tree): the Module root goes to generic_visit.
    /\ stack = <<[kind |-> "Other", pc |-> "children", stmt |-> 0,
                  condition_node |-> None, parent |-> None, prev |-> None,
                  true_branch |-> None, false_branch |-> None, n |-> 0,
                  cur0 |-> None]>>

\* visit_If, up to the first loop.
VisitIf ==
    /\ stack # <<>> /\ Top.kind = "If" /\ Top.pc = "entry"
    /\ LET condition_node == NodeId(node_counter)
           parent == current_node
       IN /\ node_counter' = NextCounter(node_counter)
          /\ nodes' = Append(nodes, [id |-> condition_node, fillcolor |-> "lightblue"])
          /\ edges' = IF HasPredecessor(parent)
                        THEN Append(edges, Edge(parent, condition_node, NoLabel, "parent"))
                        ELSE edges
          /\ current_node' = condition_node
          /\ stack' = SetTop([Top EXCEPT !.condition_node = condition_node,
                                         !.parent = parent,
                                         !.true_branch = None,
                                         !.n = 0,
                                         !.pc = "body"])
          /\ tree' = [tree EXCEPT ![Top.stmt].node = condition_node]
    /\ UNCHANGED suppress_edge

\* for stmt in node.body: prev = ...; suppress_edge = True; self.visit(stmt)
IfBodyCall ==
    /\ stack # <<>> /\ Top.kind = "If" /\ Top.pc = "body"
    /\ Len(tree) < MaxStmts
    /\ \E k \in Kinds :
         /\ tree' = Append(tree, NewStmt(k, Top, "body"))
         /\ stack' = Append(SetTop([Top EXCEPT !.prev = current_node,
                                               !.n = @ + 1,
                                               !.pc = "body_called"]),
                            NewFrame(k, Len(tree) + 1))
    /\ suppress_edge' = SuppressOn
    /\ UNCHANGED <<nodes, edges, current_node, node_counter>>

\* after self.visit(stmt) returns in the true-branch loop
AfterBody ==
    /\ stack # <<>> /\ Top.kind = "If" /\ Top.pc = "body_ret"
    /\ suppress_edge' = FALSE
    /\ IF current_node # Top.prev /\ Top.true_branch = None
         THEN /\ edges' = Append(edges, Edge(Top.condition_node, current_node, TrueFirstLabel, "true_first"))
              /\ stack' = SetTop([Top EXCEPT !.true_branch = current_node, !.pc = "body"])
         ELSE IF current_node # Top.prev
                THEN /\ edges' = Append(edges, Edge(Top.prev, current_node, TrueChainLabel, "true_chain"))
                     /\ stack' = SetTop([Top EXCEPT !.pc = "body"])
                ELSE /\ edges' = edges
                     /\ stack' = SetTop([Top EXCEPT !.pc = "body"])
    /\ UNCHANGED <<nodes, current_node, node_counter, tree>>

\* node.body exhausted: false_branch = None; current_node = condition_node
\* (the body of a parsed ast.If holds at least one statement; orelse may be empty)
IfBodyEnd ==
    /\ stack # <<>> /\ Top.kind = "If" /\ Top.pc = "body"
    /\ Top.n >= 1
    /\ current_node' = Top.condition_node
    /\ stack' = SetTop([Top EXCEPT !.false_branch = None, !.n = 0, !.pc = "orelse"])
    /\ UNCHANGED <<nodes, edges, node_counter, suppress_edge, tree>>

\* for stmt in node.orelse: prev = ...; suppress_edge = True; self.visit(stmt)
IfOrelseCall ==
    /\ stack # <<>> /\ Top.kind = "If" /\ Top.pc = "orelse"
    /\ Len(tree) < MaxStmts
    /\ \E k \in Kinds :
         /\ tree' = Append(tree, NewStmt(k, Top, "orelse"))
         /\ stack' = Append(SetTop([Top EXCEPT !.prev = current_node,
                                               !.n = @ + 1,
                                               !.pc = "orelse_called"]),
                            NewFrame(k, Len(tree) + 1))
    /\ suppress_edge' = SuppressOn
    /\ UNCHANGED <<nodes, edges, current_node, node_counter>>

\* after self.visit(stmt) returns in the false-branch loop
AfterOrelse ==
    /\ stack # <<>> /\ Top.kind = "If" /\ Top.pc = "orelse_ret"
    /\ suppress_edge' = FALSE
    /\ IF current_node # Top.prev /\ Top.false_branch = None
         THEN /\ edges' = Append(edges, Edge(Top.condition_node, current_node, FalseFirstLabel, "false_first"))
              /\ stack' = SetTop([Top EXCEPT !.false_branch = current_node, !.pc = "orelse"])
         ELSE IF current_node # Top.prev
                THEN /\ edges' = Append(edges, Edge(Top.prev, current_node, FalseChainLabel, "false_chain"))
                     /\ stack' = SetTop([Top EXCEPT !.pc = "orelse"])
                ELSE /\ edges' = edges
                     /\ stack' = SetTop([Top EXCEPT !.pc = "orelse"])
    /\ UNCHANGED <<nodes, current_node, node_counter, tree>>

\* node.orelse exhausted: current_node = parent, and visit_If is about to return
IfOrelseEnd ==
    /\ stack # <<>> /\ Top.kind = "If" /\ Top.pc = "orelse"
    /\ current_node' = RestoreCursor(Top)
    /\ stack' = SetTop([Top EXCEPT !.pc = "ret"])
    /\ UNCHANGED <<nodes, edges, node_counter, suppress_edge, tree>>

\* visit_Return, from its first line to its return
VisitReturn ==
    /\ stack # <<>> /\ Top.kind = "Return" /\ Top.pc = "entry"
    /\ LET return_node == NodeId(node_counter)
       IN /\ node_counter' = NextCounter(node_counter)
          /\ nodes' = Append(nodes, [id |-> return_node, fillcolor |-> "lightgreen"])
          /\ edges' = IF DefaultEdge(current_node, suppress_edge)
                        THEN Append(edges, Edge(current_node, return_node, NoLabel, "default"))
                        ELSE edges
          /\ current_node' = return_node
          /\ tree' = [tree EXCEPT ![Top.stmt].node = return_node]
    /\ stack' = Returned
    /\ UNCHANGED suppress_edge

\* generic_visit, isinstance(node, ast.Expr), from its first line to its return
VisitExpr ==
    /\ stack # <<>> /\ Top.kind = "Expr" /\ Top.pc = "entry"
    /\ LET expr_node == NodeId(node_counter)
       IN /\ node_counter' = NextCounter(node_counter)
          /\ nodes' = Append(nodes, [id |-> expr_node, fillcolor |-> "lightyellow"])
          /\ edges' = IF DefaultEdge(current_node, suppress_edge)
                        THEN Append(edges, Edge(current_node, expr_node, NoLabel, "default"))
                        ELSE edges
          /\ current_node' = expr_node
          /\ tree' = [tree EXCEPT ![Top.stmt].node = expr_node]
    /\ stack' = Returned
    /\ UNCHANGED suppress_edge

\* generic_visit, any other node: super().generic_visit(node) starts on the children
VisitOther ==
    /\ stack # <<>> /\ Top.kind = "Other" /\ Top.pc = "entry"
    /\ stack' = SetTop([Top EXCEPT !.pc = "children"])
    /\ UNCHANGED <<nodes, edges, current_node, node_counter, suppress_edge, tree>>

\* NodeVisitor.generic_visit: self.visit(child) for the next child statement
OtherCall ==
    /\ stack # <<>> /\ Top.kind = "Other" /\ Top.pc = "children"
    /\ Len(tree) < MaxStmts
    /\ \E k \in Kinds :
         /\ tree' = Append(tree, NewStmt(k, Top, "body"))
         /\ stack' = Append(SetTop([Top EXCEPT !.n = @ + 1, !.pc = "children_called"]),
                            NewFrame(k, Len(tree) + 1))
    /\ UNCHANGED <<nodes, edges, current_node, node_counter, suppress_edge>>

\* NodeVisitor.generic_visit: no child left, generic_visit returns
OtherEnd ==
    /\ stack # <<>> /\ Top.kind = "Other" /\ Top.pc = "children"
    /\ stack' = Returned
    /\ UNCHANGED <<nodes, edges, current_node, node_counter, suppress_edge, tree>>

\* visit_If returns to its caller.
Ret ==
    /\ stack # <<>> /\ Top.kind = "If" /\ Top.pc = "ret"
    /\ stack' = Returned
    /\ UNCHANGED <<nodes, edges, current_node, node_counter, suppress_edge, tree>>

Next ==
    \/ VisitIf
    \/ IfBodyCall
    \/ AfterBody
    \/ IfBodyEnd
    \/ IfOrelseCall
    \/ AfterOrelse
    \/ IfOrelseEnd
    \/ VisitReturn
    \/ VisitExpr
    \/ VisitOther
    \/ OtherCall
    \/ OtherEnd
    \/ Ret

Spec == Init /\ [][Next]_vars

----------------------------------------------------------------------------
\* Vocabulary of the properties

Done == stack = <<>>

Stmts == 1..Len(tree)

EdgeIdx == 1..Len(edges)

NodeIds == {nodes[i].id : i \in 1..Len(nodes)}

Recognized == {s \in Stmts : tree[s].kind \in {"If", "Return", "Expr"}}

Leaves == {s \in Stmts : tree[s].kind \in {"Return", "Expr"}}

Conditionals == {s \in Stmts : tree[s].kind = "If"}

BranchLabel(field) == IF field = "body" THEN "True" ELSE "False"

\* The statements standing directly in one branch of conditional p.
Branch(p, field) == {s \in Stmts : tree[s].up = p /\ tree[s].field = field}

\* s is statement p or lies somewhere below it.
RECURSIVE Under(_, _)
Under(s, p) == IF s = p THEN TRUE
               ELSE IF tree[s].up = 0 THEN FALSE
               ELSE Under(tree[s].up, p)

\* The graph nodes made for statement p and everything below it.
SubtreeNodes(p) == {tree[s].node : s \in {t \in Stmts : Under(t, p)}} \ {None}

\* The graph nodes made while walking one branch of conditional p.
BranchNodes(p, field) ==
    {tree[s].node : s \in {t \in Stmts : \E c \in Branch(p, field) : Under(t, c)}} \ {None}

Least(S) == CHOOSE n \in S : \A m \in S : n <= m

\* The edges that end at node n.
Incoming(n) == {j \in EdgeIdx : edges[j].to = n}

\* Some conditional encloses statement s, at any distance.
InsideConditional(s) == \E p \in Conditionals : p # s /\ Under(s, p)

\* The statement right before s in the sequence that holds s (0 when s is first).
Before(s) ==
    IF \E q \in Stmts : /\ tree[q].up = tree[s].up /\ tree[q].field = tree[s].field
                        /\ tree[q].pos + 1 = tree[s].pos
      THEN CHOOSE q \in Stmts : /\ tree[q].up = tree[s].up /\ tree[q].field = tree[s].field
                                /\ tree[q].pos + 1 = tree[s].pos
      ELSE 0

\* Frame k is a conditional whose loop is inside the recursive visit of a branch statement.
Visiting(k) == stack[k].kind = "If" /\ stack[k].pc \in {"body_called", "orelse_called"}

----------------------------------------------------------------------------
\* C1: in the finished graph, each conditional has, per side, exactly one edge
\* with that side's label leaving its condition node, and it goes to the first
\* node of the branch; a side with no statements has no such edge.  (Read for
\* the sides whose walk makes at least one node: only those have a first node.)
C1_BranchEdges ==
    Done =>
      \A p \in Conditionals : \A field \in {"body", "orelse"} :
        LET out == {j \in EdgeIdx : edges[j].from = tree[p].node
                                      /\ edges[j].label = BranchLabel(field)}
        IN /\ Branch(p, field) = {} => out = {}
           /\ BranchNodes(p, field) # {} =>
                /\ Cardinality(out) = 1
                /\ \A j \in out : edges[j].to = Least(BranchNodes(p, field))

\* C2: a conditional that is the first statement of a branch of another
\* conditional is joined to the enclosing condition node by an edge with the
\* branch's label, and by no unlabeled edge.
C2_NestedFirstLabeled ==
    \A s \in Conditionals :
      (tree[s].up # 0 /\ tree[tree[s].up].kind = "If" /\ tree[s].pos = 1
         /\ tree[s].node # None) =>
        LET outer == tree[tree[s].up].node
        IN /\ ~ \E j \in EdgeIdx : /\ edges[j].from = outer /\ edges[j].to = tree[s].node
                                   /\ edges[j].label = NoLabel
           /\ Done => \E j \in EdgeIdx : /\ edges[j].from = outer /\ edges[j].to = tree[s].node
                                         /\ edges[j].label = BranchLabel(tree[s].field)

\* The k-th Terminal/Expression statement in source order.
NthLeaf(k) == CHOOSE s \in Leaves : Cardinality({t \in Leaves : t < s}) = k - 1

\* C3: an input without conditionals and with N Terminal/Expression statements
\* gives N nodes and N-1 edges, all unlabeled, the i-th edge going from the
\* node of the i-th statement to the node of the (i+1)-th.
C3_Chain ==
    (Done /\ Conditionals = {}) =>
      LET N == Cardinality(Leaves)
      IN /\ Len(nodes) = N
         /\ Len(edges) = IF N = 0 THEN 0 ELSE N - 1
         /\ \A j \in EdgeIdx : /\ edges[j].label = NoLabel
                               /\ edges[j].from = tree[NthLeaf(j)].node
                               /\ edges[j].to = tree[NthLeaf(j + 1)].node

C3_Witness ==
    /\ Done /\ Conditionals = {}
    /\ Cardinality(Leaves) >= 3
    /\ \E s \in Leaves : tree[s].up # 0
    /\ Len(edges) >= 2

\* C4 as written: in a branch walk only the edge to the first node is labeled;
\* the edge that attaches a later node of the branch carries no label.
C4_ChainUnlabeled ==
    \A j \in EdgeIdx :
      edges[j].site \in {"true_chain", "false_chain"} => edges[j].label = NoLabel

\* C4 amended: in a branch walk the edge to the first node leaves the condition
\* node with the branch's label, and the edge the loop draws for a later
\* statement that moved the cursor goes from another node of the branch (prev)
\* to the new cursor node and carries the branch's label as well.
C4_ChainLabeled ==
    /\ Done => \A j \in EdgeIdx :
         /\ edges[j].site = "true_first" =>
              /\ edges[j].label = "True"
              /\ \E p \in Conditionals : /\ tree[p].node = edges[j].from
                                         /\ edges[j].to \in BranchNodes(p, "body")
         /\ edges[j].site = "false_first" =>
              /\ edges[j].label = "False"
              /\ \E p \in Conditionals : /\ tree[p].node = edges[j].from
                                         /\ edges[j].to \in BranchNodes(p, "orelse")
         /\ edges[j].site = "true_chain" =>
              /\ edges[j].label = "True"
              /\ \E p \in Conditionals : /\ edges[j].from \in BranchNodes(p, "body")
                                         /\ edges[j].to \in BranchNodes(p, "body")
                                         /\ edges[j].from < edges[j].to
         /\ edges[j].site = "false_chain" =>
              /\ edges[j].label = "False"
              /\ \E p \in Conditionals : /\ edges[j].from \in BranchNodes(p, "orelse")
                                         /\ edges[j].to \in BranchNodes(p, "orelse")
                                         /\ edges[j].from < edges[j].to
         /\ edges[j].label # NoLabel =>
              edges[j].site \in {"true_first", "true_chain", "false_first", "false_chain"}
    /\ \A k \in 1..Len(stack) :
         /\ (stack[k].kind = "If" /\ stack[k].pc = "body_ret"
               /\ stack[k].true_branch # None) => stack[k].prev # stack[k].condition_node
         /\ (stack[k].kind = "If" /\ stack[k].pc = "orelse_ret"
               /\ stack[k].false_branch # None) => stack[k].prev # stack[k].condition_node

C4_Witness ==
    /\ \E j \in EdgeIdx : edges[j].site = "true_chain"
    /\ \E j \in EdgeIdx : edges[j].site = "false_chain"

\* C5: when a conditional has been handled the cursor is what it was just
\* before the conditional was visited, and no edge into the statement that
\* follows the conditional in its sequence starts at the condition node or at
\* a node of its branches.
C5_CursorRestored ==
    /\ (stack # <<>> /\ Top.kind = "If" /\ Top.pc = "ret") => current_node = Top.cur0
    /\ Done => \A s \in Recognized :
         (Before(s) # 0 /\ tree[Before(s)].kind = "If") =>
           \A j \in Incoming(tree[s].node) : edges[j].from \notin SubtreeNodes(Before(s))

C5_Witness ==
    /\ stack # <<>> /\ Top.kind = "If" /\ Top.pc = "ret"
    /\ Top.cur0 # None
    /\ BranchNodes(Top.stmt, "body") \cup BranchNodes(Top.stmt, "orelse") # {}
    /\ \E s \in Recognized :
         /\ Before(s) # 0 /\ tree[Before(s)].kind = "If" /\ tree[s].node # None
         /\ Cardinality(SubtreeNodes(Before(s))) >= 2
         /\ Incoming(tree[s].node) # {}

\* C6: while a branch loop is inside the recursive visit of a statement the
\* suppression flag is true, it is false once the loop has taken the visit's
\* result, and so no Terminal/Expression visited inside a conditional draws
\* its own default predecessor edge.
C6_SuppressedDuringVisit ==
    /\ \A k \in 1..Len(stack) : Visiting(k) => suppress_edge = TRUE
    /\ (stack # <<>> /\ Top.kind = "If" /\ Top.pc \in {"body", "orelse"} /\ Top.n > 0)
         => suppress_edge = FALSE
    /\ \A j \in EdgeIdx :
         edges[j].site = "default" =>
           \A s \in Leaves : tree[s].node = edges[j].to => ~InsideConditional(s)

\* C7: every recognized statement makes exactly one node and an unrecognized
\* one makes none; the ids are 0, 1, 2, ... in creation order without reuse,
\* and the finished graph has as many nodes as there are recognized statements.
C7_OneNodePerStatement ==
    /\ node_counter = Len(nodes)
    /\ \A i \in 1..Len(nodes) : nodes[i].id = i - 1
    /\ \A s \in Stmts :
         IF tree[s].kind = "Other"
           THEN tree[s].node = None
           ELSE tree[s].node = None => (stack # <<>> /\ Top.stmt = s /\ Top.pc = "entry")
    /\ Done =>
         /\ Len(nodes) = Cardinality(Recognized)
         /\ \A s, t \in Recognized : s < t => tree[s].node < tree[t].node

C7_Witness ==
    /\ Done
    /\ Len(nodes) >= 3
    /\ \E s \in Recognized : tree[s].up # 0 /\ tree[tree[s].up].kind = "Other"
    /\ \E s \in Recognized : tree[s].up # 0 /\ tree[tree[s].up].kind = "If"

\* C8: both ends of every edge are nodes that exist when the edge is added
\* (the newest edge is looked at in every state, all of them in the finished
\* graph), and the cursor and each loop's prev, when set, are ids of nodes
\* that exist.
C8_EdgesReferToNodes ==
    LET ids == NodeIds
    IN /\ edges # <<>> => /\ edges[Len(edges)].from \in ids
                          /\ edges[Len(edges)].to \in ids
       /\ Done => \A j \in EdgeIdx : edges[j].from \in ids /\ edges[j].to \in ids
       /\ current_node # None => current_node \in ids
       /\ \A k \in 1..Len(stack) :
            /\ stack[k].prev # None => stack[k].prev \in ids
            /\ stack[k].parent # None => stack[k].parent \in ids
            /\ stack[k].condition_node # None => stack[k].condition_node \in ids

C8_Witness ==
    /\ Len(edges) >= 3
    /\ current_node # None
    /\ \E k \in 1..Len(stack) : stack[k].prev # None /\ stack[k].parent # None
    /\ \E j \in EdgeIdx : edges[j].site = "parent"
    /\ \E j \in EdgeIdx : edges[j].site = "default"

\* The Terminal/Expression statements that stand directly in a branch of a
\* conditional right after a nested conditional.
AfterNested ==
    {s \in Leaves : /\ tree[s].up # 0 /\ tree[tree[s].up].kind = "If"
                    /\ Before(s) # 0 /\ tree[Before(s)].kind = "If"
                    /\ tree[s].node # None}

\* C9: in the finished graph such a statement's node has exactly one incoming
\* edge, and it starts at
\* the cursor value from before the nested conditional was visited: the
\* enclosing condition node when the nested conditional came first in the
\* branch, the node of the preceding Terminal/Expression otherwise.
C9_AfterNestedConnected ==
    Done => \A s \in AfterNested :
      LET q == Before(s)
      IN /\ Cardinality(Incoming(tree[s].node)) = 1
         /\ \A j \in Incoming(tree[s].node) :
              /\ edges[j].from = tree[q].cur0
              /\ tree[q].pos = 1 => edges[j].from = tree[tree[s].up].node
              /\ (Before(q) # 0 /\ Before(q) \in Leaves) => edges[j].from = tree[Before(q)].node

C9_Witness ==
    /\ Done
    /\ \E s \in AfterNested : /\ Cardinality(SubtreeNodes(Before(s))) >= 2
                            /\ Before(Before(s)) # 0 /\ Before(Before(s)) \in Leaves

\* C10: every node of the finished graph has at most one incoming edge.
C10_AtMostOneIncoming ==
    Done => \A i \in 1..Len(nodes) : Cardinality(Incoming(nodes[i].id)) <= 1

====
